---- MODULE Spec2Model ----
(***************************************************************************)
(* Batch ingestion pipeline of FinanceCrawler (batch_crawler/crawler.py):  *)
(* catalog refresh, pending-work selection, the batch scheduler with its   *)
(* multiprocessing Pool, and the unit of work fetch_and_save_stock_details.*)
(* Stock codes are sequences of digits so that the prefix tests of the     *)
(* code (startswith) are computed, not assumed.                            *)
(***************************************************************************)
EXTENDS Integers, Sequences, FiniteSets, Bags, TLC

\* ---------------------------------------------------------------- bounds
\* number of executions of main() a behaviour may contain
MaxRuns == 2

\* batch_crawler/config.py: MAX_WORKERS = 3
MAX_WORKERS == 3

\* ---------------------------------------------------------------- values
None == "None"

Code688 == <<6, 8, 8, 0, 0, 1>>
CodeSH == <<6, 0, 0, 0, 0, 0>>
CodeSZ == <<3, 0, 0, 0, 0, 1>>
CodeHK == <<0, 0, 7, 0, 0>>

\* str.startswith
StartsWith(s, p) == Len(s) >= Len(p) /\ SubSeq(s, 1, Len(p)) = p

\* Python truthiness: None and "" are falsy strings, an empty list is a falsy list
\* (an absent code or name of a ranking row is modelled by the empty value)
Truthy(x) == x \notin {None, ""}
TruthyList(x) == x # <<>>

\* ------------------------------------------------------ external sources
\* eastmoney_fetcher.MARKET_OPTIONS, in dictionary order
Markets == << [name |-> "A", type |-> "A-Share"], [name |-> "HK", type |-> "HK-Share"] >>

Row(c, n) == [code |-> c, name |-> n]

\* what crawl_stock_ranking_data may return for a market: None, an empty frame, or rows
\* raised: the call raises instead of returning (a response whose "data" is null makes
\* data.get("data", {}).get("diff") raise AttributeError, which no handler catches)
Frame(rows) == [isNone |-> FALSE, raised |-> FALSE, rows |-> rows]
NoFrame == [isNone |-> TRUE, raised |-> FALSE, rows |-> <<>>]
FrameFault == [isNone |-> FALSE, raised |-> TRUE, rows |-> <<>>]

RankingOutputs(market_name) ==
    IF market_name = "A"
    THEN { NoFrame,
           Frame(<< Row(CodeSH, "sh"), Row(<<>>, "x"), Row(CodeSZ, "sz"), Row(Code688, "kc") >>) }
    ELSE { Frame(<<>>),
           Frame(<< Row(CodeHK, "hk"), Row(CodeSH, "dup"), Row(CodeSZ, "") >>) }

\* the outputs met when update_stock_list is run on its own: also an empty frame of the
\* first market, no frame of the second, frames that repeat a code under another name,
\* within one market or across the two, and a call that raises
CatalogRankingOutputs(market_name) ==
    RankingOutputs(market_name) \cup { FrameFault } \cup
    ( IF market_name = "A"
      THEN { Frame(<<>>), Frame(<< Row(CodeSH, "sh2"), Row(CodeHK, "hkA"), Row(CodeSH, "sh3") >>) }
      ELSE { NoFrame, Frame(<< Row(CodeHK, "hk2"), Row(CodeSZ, "szH") >>) } )

\* the page a detail fetch meets: "table" a well-formed finance table, "timeout" a page
\* whose table never loads, "ragged" a table with a body row whose cell count differs
\* from the header's, "nodriver" a browser driver that cannot be started
PageKinds == {"table", "timeout", "ragged", "nodriver"}

NewsItem(u) == [url |-> u, title |-> "t", publishTime |-> 1]

\* what get_company_news may return (an empty list on any failure)
NewsResults == { <<>>, << NewsItem("n1") >> }

\* ------------------------------------------------------------ the store
\* the three tables of db.create_tables; now is CURRENT_TIMESTAMP, which advances from
\* one run of main() to the next
VARIABLES stocks, financial_data, news, now

\* ------------------------------------------------------ the refresh
\* what the latest update_stock_list saw and reported: df the frame of each market,
\* insert_count_for_market and total_inserted the counts it printed (a market that is
\* skipped reports no count, recorded as 0); crawl_all_details does not see them
VARIABLES refreshLog

\* ------------------------------------------------------ the bridge
\* one call of app/data_integrator.get_integrated_stock_details: lookup its arguments,
\* bpc its position, script the detail-fetch subprocess it runs, result the fields of
\* the object it returns, elapsed the seconds it has waited on external calls and
\* external_calls the calls it has made
VARIABLES lookup, bpc, script, result, elapsed, external_calls

bridgeVars == << lookup, bpc, script, result, elapsed, external_calls >>

\* ------------------------------------------------------ the scheduler
\* total_results is the bag of the results appended so far (the code only counts them);
\* excPending: a task raised and the loop has not yet met its exception;
\* issued (the batches submitted), pauses (the sleeps taken), completed (the codes whose
\* unit returned) and errored (the codes whose DetailFetcher returned an error in the
\* last run) record what the runs have done
VARIABLES mainPc, runs, max_workers, all_stocks, i, unit, worker, taskQueue,
          excPending, total_results, completed, issued, pauses, errored

pipelineVars == << stocks, financial_data, news, now, refreshLog, mainPc, runs, max_workers,
                  all_stocks, i, unit, worker, taskQueue, excPending, total_results,
                  completed, issued, pauses, errored >>

vars == << bridgeVars, pipelineVars >>

StockCodes == { stocks[j].stock_code : j \in DOMAIN stocks }
SnapshotCodes == { r.stock_code : r \in financial_data }
NewsUrls == { r.url : r \in news }

\* ------------------------------------------------------- catalog refresh
\* the insert of a row that overwrites the row stored for its code
RECURSIVE InsertStocksReplace(_, _, _, _)
InsertStocksReplace(tbl, rows, market_type, inserted) ==
    IF rows = <<>> THEN [tbl |-> tbl, insert_count |-> inserted]
    ELSE LET row == Head(rows)
             kept == SelectSeq(tbl, LAMBDA s : s.stock_code # row.code)
         IN IF ~TruthyList(row.code) \/ ~Truthy(row.name)
            THEN InsertStocksReplace(tbl, Tail(rows), market_type, inserted)
            ELSE InsertStocksReplace(Append(kept, [stock_code |-> row.code, stock_name |-> row.name,
                                                   market_type |-> market_type, last_updated |-> now]),
                                     Tail(rows), market_type, inserted + 1)

\* the insert that counts every execute, whatever its rowcount
RECURSIVE InsertStocksCountAll(_, _, _, _)
InsertStocksCountAll(tbl, rows, market_type, inserted) ==
    IF rows = <<>> THEN [tbl |-> tbl, insert_count |-> inserted]
    ELSE LET row == Head(rows)
             present == \E j \in DOMAIN tbl : tbl[j].stock_code = row.code
         IN IF ~TruthyList(row.code) \/ ~Truthy(row.name)
            THEN InsertStocksCountAll(tbl, Tail(rows), market_type, inserted)
            ELSE InsertStocksCountAll(
                     IF present THEN tbl
                     ELSE Append(tbl, [stock_code |-> row.code, stock_name |-> row.name,
                                       market_type |-> market_type, last_updated |-> now]),
                     Tail(rows), market_type, inserted + 1)

\* lines 56-67: INSERT OR IGNORE INTO stocks for the rows of one market, in order;
\* insert_count is the number of executes whose rowcount was positive
RECURSIVE InsertStocks(_, _, _, _)
InsertStocks(tbl, rows, market_type, inserted) ==
    IF rows = <<>> THEN [tbl |-> tbl, insert_count |-> inserted]
    ELSE LET row == Head(rows)
             present == \E j \in DOMAIN tbl : tbl[j].stock_code = row.code
         IN IF ~TruthyList(row.code) \/ ~Truthy(row.name) \/ present
            THEN InsertStocks(tbl, Tail(rows), market_type, inserted)
            ELSE InsertStocks(Append(tbl, [stock_code |-> row.code, stock_name |-> row.name,
                                           market_type |-> market_type, last_updated |-> now]),
                              Tail(rows), market_type, inserted + 1)

\* the test of line 46 without its check for None: df.empty raises on None
RefreshMarketEmptyTestOnly(tbl, market, df) ==
    IF df.raised \/ df.isNone THEN [tbl |-> tbl, insert_count |-> 0, raised |-> TRUE]
    ELSE IF df.rows = <<>> THEN [tbl |-> tbl, insert_count |-> 0, raised |-> FALSE]
    ELSE IF ~Truthy(market.type) THEN [tbl |-> tbl, insert_count |-> 0, raised |-> FALSE]
    ELSE LET r == InsertStocks(tbl, df.rows, market.type, 0)
         IN [tbl |-> r.tbl, insert_count |-> r.insert_count, raised |-> FALSE]

\* a refresh that empties the catalog before it stores a market's frame
RefreshMarketTruncating(tbl, market, df) ==
    IF df.raised THEN [tbl |-> tbl, insert_count |-> 0, raised |-> TRUE]
    ELSE IF df.isNone \/ df.rows = <<>> THEN [tbl |-> tbl, insert_count |-> 0, raised |-> FALSE]
    ELSE IF ~Truthy(market.type) THEN [tbl |-> tbl, insert_count |-> 0, raised |-> FALSE]
    ELSE LET r == InsertStocks(<<>>, df.rows, market.type, 0)
         IN [tbl |-> r.tbl, insert_count |-> r.insert_count, raised |-> FALSE]

\* lines 44-71: one market of the loop of update_stock_list; raised when the call of
\* crawl_stock_ranking_data raises
RefreshMarket(tbl, market, df) ==
    IF df.raised THEN [tbl |-> tbl, insert_count |-> 0, raised |-> TRUE]
    ELSE IF df.isNone \/ df.rows = <<>> THEN [tbl |-> tbl, insert_count |-> 0, raised |-> FALSE]
    ELSE IF ~Truthy(market.type) THEN [tbl |-> tbl, insert_count |-> 0, raised |-> FALSE]
    ELSE LET r == InsertStocks(tbl, df.rows, market.type, 0)
         IN [tbl |-> r.tbl, insert_count |-> r.insert_count, raised |-> FALSE]

\* lines 43-71: the loop over the markets, dfs what the RankingSource gives for each; an
\* exception leaves the loop with the counts printed so far
RECURSIVE RefreshMarkets(_, _, _, _, _)
RefreshMarkets(tbl, markets, dfs, counts, total) ==
    IF markets = <<>>
    THEN [tbl |-> tbl, insert_count_for_market |-> counts, total_inserted |-> total, aborted |-> FALSE]
    ELSE LET r == RefreshMarket(tbl, Head(markets), Head(dfs))
         IN IF r.raised
            THEN [tbl |-> tbl, insert_count_for_market |-> counts, total_inserted |-> total, aborted |-> TRUE]
            ELSE RefreshMarkets(r.tbl, Tail(markets), Tail(dfs),
                                Append(counts, r.insert_count), total + r.insert_count)

NoRefresh == [df |-> <<>>, insert_count_for_market |-> <<>>, total_inserted |-> 0, aborted |-> FALSE]

\* update_stock_list: one transaction, committed at line 73; an exception leaves before
\* the commit and the inserts made so far are rolled back with the connection
update_stock_list(dfs) ==
    LET r == RefreshMarkets(stocks, Markets, dfs, <<>>, 0)
    IN /\ stocks' = IF r.aborted THEN stocks ELSE r.tbl
       /\ refreshLog' = [df |-> dfs, insert_count_for_market |-> r.insert_count_for_market,
                         total_inserted |-> r.total_inserted, aborted |-> r.aborted]
       /\ now' = now + 1

\* main(): update_stock_list()
UpdateStockList ==
    /\ mainPc \in {"idle", "done", "aborted"}
    /\ runs < MaxRuns
    /\ \E dfA \in RankingOutputs("A"), dfH \in RankingOutputs("HK") :
          update_stock_list(<< dfA, dfH >>)
    /\ runs' = runs + 1
    /\ mainPc' = "refreshed"
    /\ all_stocks' = <<>>
    /\ i' = 0
    /\ unit' = <<>>
    /\ worker' = <<>>
    /\ taskQueue' = <<>>
    /\ excPending' = FALSE
    /\ total_results' = EmptyBag
    /\ completed' = {}
    /\ issued' = <<>>
    /\ pauses' = 0
    /\ UNCHANGED << financial_data, news, bridgeVars, max_workers, errored >>

\* ------------------------------------------------- pending-work selection
\* the selection without its WHERE clause: every instrument of the catalog
PendingSelectAll(tbl, fd) == [ j \in DOMAIN tbl |-> << tbl[j].stock_code, tbl[j].market_type >> ]

\* SELECT s.stock_code, s.market_type FROM stocks s LEFT JOIN financial_data fd ... WHERE fd.stock_code IS NULL
RECURSIVE PendingSelect(_, _)
PendingSelect(tbl, fd) ==
    IF tbl = <<>> THEN <<>>
    ELSE LET s == Head(tbl)
             joined == { r \in fd : r.stock_code = s.stock_code }
         IN (IF joined = {} THEN << << s.stock_code, s.market_type >> >> ELSE <<>>)
            \o PendingSelect(Tail(tbl), fd)

SelectPending ==
    /\ mainPc = "refreshed"
    /\ all_stocks' = PendingSelect(stocks, financial_data)
    /\ mainPc' = "selected"
    /\ refreshLog' = NoRefresh
    /\ UNCHANGED << stocks, financial_data, news, now, runs, bridgeVars, max_workers, i, unit, worker,
                    taskQueue, excPending, total_results, completed, issued, pauses, errored >>

\* --------------------------------------------------------- the fetchers
\* stock_details_fetcher.get_full_stock_code on a code of digits: the exchange prefix, or ValueError
get_full_stock_code(code) ==
    IF StartsWith(code, <<6, 0>>) \/ StartsWith(code, <<6, 8, 8>>) \/ StartsWith(code, <<6, 8, 9>>) THEN "SH"
    ELSE IF StartsWith(code, <<0, 0>>) \/ StartsWith(code, <<3, 0>>) THEN "SZ"
    ELSE IF StartsWith(code, <<8>>) \/ StartsWith(code, <<4>>) THEN "BJ"
    ELSE IF Len(code) = 6 THEN (IF StartsWith(code, <<6, 0>>) \/ StartsWith(code, <<6, 8>>) THEN "SH" ELSE "SZ")
    ELSE "ValueError"

Raised == [raised |-> TRUE, df |-> None, raw_data |-> None, error |-> None]
Returned(df, raw, err) == [raised |-> FALSE, df |-> df, raw_data |-> raw, error |-> err]

\* _scrape_financial_analysis_with_playwright: every exception of the scrape is caught there
scrape_a_share(page) ==
    IF page = "table" THEN [scraped_data |-> "parsed", error |-> None]
    ELSE IF page = "ragged" THEN [scraped_data |-> "ragged", error |-> None]
    ELSE [scraped_data |-> None, error |-> "scrape_error"]

\* stock_details_fetcher.get_stock_details: get_full_stock_code and the DataFrame
\* construction are outside every try block
get_a_share_details(code, page) ==
    IF get_full_stock_code(code) = "ValueError" THEN Raised
    ELSE LET r == scrape_a_share(page)
         IN IF Truthy(r.error) THEN Returned("na_df", "empty_raw_data", r.error)
            ELSE IF ~Truthy(r.scraped_data) THEN Returned("na_df", "empty_raw_data", "no_table")
            ELSE IF r.scraped_data = "ragged" THEN Raised
            ELSE Returned("df", "raw_data", None)

\* fetchers/hk_details_fetcher.fetch_hk_stock_details: sync_playwright() is entered
\* outside the try block, the parser drops rows that do not fit the header
get_hk_share_details(code, page) ==
    IF page = "nodriver" THEN Raised
    ELSE IF page = "timeout" THEN Returned(None, None, "hk_error")
    ELSE Returned("df", "parsed_data", None)

\* ------------------------------------------------------ the unit of work
\* the exclusion test with another prefix
IsExcludedOtherPrefix(stock_code) == StartsWith(stock_code, <<6, 8, 9>>)

IsExcluded(stock_code) == StartsWith(stock_code, <<6, 8, 8>>)

\* the state of one task of the pool; store_error tells whether an execute of the
\* unit raised sqlite3.Error, fault where an exception left the unit
NewUnit(stock_info) ==
    [ stock_code |-> stock_info[1], market_type |-> stock_info[2], pc |-> "queued",
      raw_data |-> None, details_error |-> None, news_result |-> <<>>,
      calls |-> <<>>, outcome |-> None, store_error |-> FALSE, fault |-> None ]

Finished(u, pc, outcome, store_error) ==
    [ u EXCEPT !.pc = pc, !.outcome = outcome, !.store_error = store_error,
               !.raw_data = None, !.details_error = None, !.news_result = <<>> ]

WorkerOf(k) == CHOOSE w \in DOMAIN worker : worker[w].task = k
Release(k) == [worker EXCEPT ![WorkerOf(k)].task = 0]

\* lines 185-187: a result reaches the loop over imap_unordered, which appends it and
\* advances the progress bar; results behind a task's exception are never consumed
Collected(outcome) == IF excPending THEN total_results ELSE total_results (+) SetToBag({outcome})

\* the workers of a pool are interchangeable: an unused worker takes a task only when
\* every worker before it has been used
MayTake(w) ==
    /\ worker[w].task = 0
    /\ worker[w].ran > 0 \/ \A v \in 1..(w - 1) : worker[v].ran > 0

\* a pool worker takes the next task of the queue; lines 86-92 of the unit
TakeTask(w) ==
    /\ mainPc = "pool"
    /\ MayTake(w)
    /\ taskQueue # <<>>
    /\ LET k == Head(taskQueue)
       IN /\ taskQueue' = Tail(taskQueue)
          /\ IF IsExcluded(unit[k].stock_code)
             THEN /\ unit' = [unit EXCEPT ![k] = Finished(@, "returned", "skipped", FALSE)]
                  /\ worker' = [worker EXCEPT ![w].ran = @ + 1]
                  /\ total_results' = Collected("skipped")
                  /\ completed' = completed \cup {unit[k].stock_code}
             ELSE /\ unit' = [unit EXCEPT ![k].pc = "detail"]
                  /\ worker' = [worker EXCEPT ![w].ran = @ + 1, ![w].task = k]
                  /\ UNCHANGED << total_results, completed >>
    /\ UNCHANGED << stocks, financial_data, news, now, mainPc, runs, bridgeVars, max_workers, refreshLog, all_stocks,
                    i, excPending, issued, pauses, errored >>

\* lines 94-103: the DetailFetcher variant of the market type
DetailFetch(k) ==
    /\ mainPc = "pool"
    /\ unit[k].pc = "detail"
    /\ \E page \in PageKinds :
          LET isA == unit[k].market_type = "A-Share"
              res == IF isA THEN get_a_share_details(unit[k].stock_code, page)
                     ELSE get_hk_share_details(unit[k].stock_code, page)
              called == Append(unit[k].calls, IF isA THEN "get_a_share_details" ELSE "get_hk_share_details")
          IN IF res.raised
             THEN /\ unit' = [unit EXCEPT ![k] = Finished([@ EXCEPT !.calls = called, !.fault = "detail"],
                                                            "raised", "exception", FALSE)]
                  /\ worker' = Release(k)
                  /\ excPending' = TRUE
                  /\ errored' = errored \ {unit[k].stock_code}
                  /\ UNCHANGED completed
             ELSE /\ unit' = [unit EXCEPT ![k].pc = "news", ![k].calls = called,
                                           ![k].raw_data = res.raw_data, ![k].details_error = res.error]
                  /\ errored' = IF Truthy(res.error) THEN errored \cup {unit[k].stock_code}
                                ELSE errored \ {unit[k].stock_code}
                  /\ UNCHANGED << worker, excPending, completed >>
    /\ UNCHANGED << stocks, financial_data, news, now, mainPc, runs, bridgeVars, max_workers, refreshLog, all_stocks,
                    i, taskQueue, total_results, issued, pauses >>

\* the news call made only after a detail fetch without error
NewsFetchOnlyOnSuccess(k) ==
    /\ mainPc = "pool"
    /\ unit[k].pc = "news"
    /\ IF Truthy(unit[k].details_error)
       THEN unit' = [unit EXCEPT ![k].pc = "persist"]
       ELSE \E res \in NewsResults :
               unit' = [unit EXCEPT ![k].pc = "persist", ![k].news_result = res,
                                     ![k].calls = Append(@, "get_company_news")]
    /\ UNCHANGED << stocks, financial_data, news, now, mainPc, runs, bridgeVars, max_workers, refreshLog, all_stocks,
                    i, worker, taskQueue, excPending, total_results, completed, issued, pauses,
                    errored >>

\* lines 105-106: get_company_news
NewsFetch(k) ==
    /\ mainPc = "pool"
    /\ unit[k].pc = "news"
    /\ \E res \in NewsResults :
          unit' = [unit EXCEPT ![k].pc = "persist", ![k].news_result = res,
                                ![k].calls = Append(@, "get_company_news")]
    /\ UNCHANGED << stocks, financial_data, news, now, mainPc, runs, bridgeVars, max_workers, refreshLog, all_stocks,
                    i, worker, taskQueue, excPending, total_results, completed, issued, pauses,
                    errored >>

\* the insert under a key made of last_updated alone
InsertOrReplaceByTime(fd, stock_code, raw_data_json) ==
    { r \in fd : r.last_updated # now }
        \cup { [stock_code |-> stock_code, last_updated |-> now, raw_data |-> raw_data_json] }

\* INSERT OR REPLACE INTO financial_data (stock_code, raw_data): the key is (stock_code, last_updated)
InsertOrReplaceSnapshot(fd, stock_code, raw_data_json) ==
    { r \in fd : ~(r.stock_code = stock_code /\ r.last_updated = now) }
        \cup { [stock_code |-> stock_code, last_updated |-> now, raw_data |-> raw_data_json] }

JsonDumps(raw_data) == [json |-> raw_data]

\* the insert of an item that overwrites the row stored for its url
RECURSIVE InsertNewsReplace(_, _, _, _, _)
InsertNewsReplace(tbl, items, stock_code, fails, inserted) ==
    IF items = <<>> THEN [tbl |-> tbl, news_inserted |-> inserted]
    ELSE LET item == Head(items)
         IN IF item.url \in fails
            THEN InsertNewsReplace(tbl, Tail(items), stock_code, fails, inserted)
            ELSE InsertNewsReplace({ r \in tbl : r.url # item.url }
                                       \cup { [url |-> item.url, stock_code |-> stock_code,
                                                title |-> item.title, publish_time |-> item.publishTime,
                                                crawled_time |-> now] },
                                   Tail(items), stock_code, fails, inserted + 1)

\* lines 122-141: INSERT OR IGNORE INTO news per item; fails is the set of urls whose
\* insert raises sqlite3.Error.  The result is the table and news_inserted.
RECURSIVE InsertNews(_, _, _, _, _)
InsertNews(tbl, items, stock_code, fails, inserted) ==
    IF items = <<>> THEN [tbl |-> tbl, news_inserted |-> inserted]
    ELSE LET item == Head(items)
             present == \E r \in tbl : r.url = item.url
         IN IF item.url \in fails \/ present
            THEN InsertNews(tbl, Tail(items), stock_code, fails, inserted)
            ELSE InsertNews(tbl \cup { [url |-> item.url, stock_code |-> stock_code,
                                        title |-> item.title, publish_time |-> item.publishTime,
                                        crawled_time |-> now] },
                            Tail(items), stock_code, fails, inserted + 1)

\* the test of line 112 without its check of the error
ShouldSaveDetailsIgnoringError(raw_data, details_error) == Truthy(raw_data)

\* line 112
ShouldSaveDetails(raw_data, details_error) == Truthy(raw_data) /\ ~Truthy(details_error)

\* the classification requiring both writes
OutcomeBoth(details_success, news_success) ==
    IF details_success /\ news_success THEN "success" ELSE "failed"

\* lines 146-149
Outcome(details_success, news_success) ==
    IF details_success \/ news_success THEN "success" ELSE "failed"

\* lines 108-149: one connection, one transaction.  snapFails, newsFails and commitFails
\* are the store errors the unit meets (sqlite3.Error on an execute, or on the commit).
Persist(k) ==
    /\ mainPc = "pool"
    /\ unit[k].pc = "persist"
    /\ \E snapFails \in BOOLEAN, commitFails \in BOOLEAN,
          newsFails \in SUBSET { unit[k].news_result[j].url : j \in DOMAIN unit[k].news_result } :
          LET u == unit[k]
              tryDetails == ShouldSaveDetails(u.raw_data, u.details_error)
              details_success == tryDetails /\ ~snapFails
              fd2 == IF details_success
                     THEN InsertOrReplaceSnapshot(financial_data, u.stock_code, JsonDumps(u.raw_data))
                     ELSE financial_data
              ins == IF TruthyList(u.news_result)
                     THEN InsertNews(news, u.news_result, u.stock_code, newsFails, 0)
                     ELSE [tbl |-> news, news_inserted |-> 0]
              news_success == ins.news_inserted > 0
              store_error == snapFails \/ newsFails # {}
          IN /\ (snapFails => tryDetails)
             /\ IF commitFails
                THEN /\ unit' = [unit EXCEPT ![k] = Finished([@ EXCEPT !.fault = "commit"],
                                                               "raised", "exception", store_error)]
                     /\ excPending' = TRUE
                     /\ UNCHANGED << financial_data, news, total_results, completed >>
                ELSE /\ financial_data' = fd2
                     /\ news' = ins.tbl
                     /\ unit' = [unit EXCEPT ![k] = Finished(@, "returned",
                                                    Outcome(details_success, news_success), store_error)]
                     /\ total_results' = Collected(Outcome(details_success, news_success))
                     /\ completed' = completed \cup {unit[k].stock_code}
                     /\ UNCHANGED excPending
    /\ worker' = Release(k)
    /\ UNCHANGED << stocks, now, mainPc, runs, bridgeVars, max_workers, refreshLog, all_stocks, i, taskQueue,
                    issued, pauses, errored >>

\* ---------------------------------------------------------- the scheduler
\* a batch size one above the configured limit
batch_size_plus_one == max_workers + 1

\* line 173
batch_size == max_workers

Min(a, b) == IF a < b THEN a ELSE b

\* line 174: [all_stocks[i:i + batch_size] for i in range(0, len(all_stocks), batch_size)]
StockBatches(lst, bs) ==
    [ b \in 1..((Len(lst) + bs - 1) \div bs) |->
        SubSeq(lst, (b - 1) * bs + 1, Min(b * bs, Len(lst))) ]

stock_batches == StockBatches(all_stocks, batch_size)

\* line 187: the progress bar advances with every appended result
pbar == BagCardinality(total_results)

\* lines 168-170
ReturnNoStocks ==
    /\ mainPc = "selected"
    /\ all_stocks = <<>>
    /\ mainPc' = "done"
    /\ errored' = {}
    /\ UNCHANGED << stocks, financial_data, news, now, runs, bridgeVars, max_workers, refreshLog, all_stocks, i, unit,
                    worker, taskQueue, excPending, total_results, completed, issued, pauses >>

\* lines 182-185: Pool(processes=batch_size) and the submission of batch i
OpenPool ==
    /\ \/ mainPc = "selected" /\ all_stocks # <<>>
       \/ mainPc = "loop"
    /\ LET batch == stock_batches[i + 1]
       IN /\ unit' = [ k \in 1..Len(batch) |-> NewUnit(batch[k]) ]
          /\ taskQueue' = [ k \in 1..Len(batch) |-> k ]
          /\ issued' = Append(issued, batch)
    /\ worker' = [ w \in 1..batch_size |-> [task |-> 0, ran |-> 0] ]
    /\ mainPc' = "pool"
    /\ errored' = IF mainPc = "selected" THEN {} ELSE errored
    /\ UNCHANGED << stocks, financial_data, news, now, runs, bridgeVars, max_workers, refreshLog, all_stocks, i,
                    excPending, total_results, completed, pauses >>

\* Pool.__exit__ is terminate(): the workers are killed, with the units they still run
Terminated(units) ==
    [ k \in DOMAIN units |->
        IF units[k].pc \in {"returned", "raised"} THEN units[k]
        ELSE Finished(units[k], "killed", None, FALSE) ]

\* line 185: the exception of a task is re-raised by the iterator of imap_unordered
\* and leaves crawl_all_details and main through the with blocks
Abort ==
    /\ mainPc = "pool"
    /\ excPending
    /\ mainPc' = "aborted"
    /\ unit' = Terminated(unit)
    /\ worker' = [ w \in DOMAIN worker |-> [worker[w] EXCEPT !.task = 0] ]
    /\ taskQueue' = <<>>
    /\ excPending' = FALSE
    /\ UNCHANGED << stocks, financial_data, news, now, runs, bridgeVars, max_workers, refreshLog, all_stocks, i,
                    total_results, completed, issued, pauses, errored >>

\* the loop left at the first result
FirstResultOnly == \E k \in DOMAIN unit : unit[k].pc = "returned"

\* the loop over imap_unordered ends when every task of the batch gave its result
BatchDrained == \A k \in DOMAIN unit : unit[k].pc = "returned"

\* lines 183, 190-199: the pool is left; sleep before the next batch, or the final report
ClosePool ==
    /\ mainPc = "pool"
    /\ ~excPending
    /\ BatchDrained
    /\ mainPc' = IF i < Len(stock_batches) - 1 THEN "sleep" ELSE "done"
    /\ unit' = Terminated(unit)
    /\ worker' = [ w \in DOMAIN worker |-> [worker[w] EXCEPT !.task = 0] ]
    /\ taskQueue' = <<>>
    /\ UNCHANGED << stocks, financial_data, news, now, runs, bridgeVars, max_workers, refreshLog, all_stocks, i,
                    excPending, total_results, completed, issued, pauses, errored >>

\* line 193: time.sleep(60), then the next iteration of the loop
Sleep ==
    /\ mainPc = "sleep"
    /\ pauses' = pauses + 1
    /\ i' = i + 1
    /\ mainPc' = "loop"
    /\ UNCHANGED << stocks, financial_data, news, now, runs, bridgeVars, max_workers, refreshLog, all_stocks, unit,
                    worker, taskQueue, excPending, total_results, completed, issued, errored >>

\* lines 196-198
success_count == CopiesIn("success", total_results)
skipped_count == CopiesIn("skipped", total_results)
failed_count == BagCardinality(total_results) - success_count - skipped_count

\* ------------------------------------------------- the single-lookup bridge
\* app/data_integrator.py: timeout=90 of the detail subprocess, timeout=60 of the news
\* subprocess
DETAIL_TIMEOUT == 90
NEWS_TIMEOUT == 60

\* the arguments of a lookup: a code of each market, and a market name that is not a key
\* of MARKET_OPTIONS
LookupCodes == { CodeSH, CodeHK }
LookupMarkets == { "A", "HK", "US" }

\* a lookup of the market type that falls back on the Hong Kong variant
MarketTypeOfDefaultHK(market_name) ==
    IF \E m \in DOMAIN Markets : Markets[m].name = market_name
    THEN (CHOOSE t \in { Markets[m].type : m \in DOMAIN Markets } :
             \E m \in DOMAIN Markets : Markets[m].name = market_name /\ Markets[m].type = t)
    ELSE "HK-Share"

\* get_market_options().get(market_name, {}).get("type")
MarketTypeOf(market_name) ==
    IF \E m \in DOMAIN Markets : Markets[m].name = market_name
    THEN (CHOOSE t \in { Markets[m].type : m \in DOMAIN Markets } :
             \E m \in DOMAIN Markets : Markets[m].name = market_name /\ Markets[m].type = t)
    ELSE None

\* ---- JSON text.  A text is a sequence of characters; the characters the code looks
\* at are told apart: "{" and "}", the quote "q", and "bad", a byte that is not valid
\* UTF-8; any other element stands for a run of other characters ("x" in stray text,
\* the name of a value inside a document).
\* A JSON object: keys is the set of its keys
Obj(df, raw, err) ==
    [ keys |-> {"dataframe", "raw_data", "error"}, dataframe |-> df, raw_data |-> raw, error |-> err ]
EmptyObj == [ keys |-> {}, dataframe |-> None, raw_data |-> None, error |-> None ]

\* DataFrame.to_json(orient='split') and pd.read_json(..., orient='split'), which raises
\* ValueError on a string that is not such a document
ToJson(df) == IF df = "df" THEN "df_json" ELSE "na_df_json"
ReadJson(str) ==
    IF str = "df_json" THEN "df" ELSE IF str = "na_df_json" THEN "na_df" ELSE "ValueError"

\* json.dumps of a string: the characters between quotes; a serialized frame has braces
DumpsString(str) ==
    IF str \in {"df_json", "na_df_json"} THEN << "q", "{", str, "}", "q" >> ELSE << "q", str, "q" >>

\* json.dumps of the payloads the fetchers return: {}, the parsed table of the HK
\* variant, and the dictionaries of the A-Share variant, which nest comparison_data
DumpsPayload(raw) ==
    IF raw = "{}" THEN << "{", "}" >>
    ELSE IF raw = "parsed_data" THEN << "{", raw, "}" >>
    ELSE IF raw = "empty_raw_data" THEN << "{", raw, "{", "}", "}" >>
    ELSE << "{", raw, "{", "parsed", "}", "}" >>

\* json.dumps of an object
DumpsText(obj) ==
    IF obj.keys = {} THEN << "{", "}" >>
    ELSE << "{" >> \o (IF obj.dataframe = None THEN << "null" >> ELSE DumpsString(obj.dataframe))
                \o DumpsPayload(obj.raw_data)
                \o (IF obj.error = None THEN << "null" >> ELSE DumpsString(obj.error))
                \o << "}" >>

\* the objects a text of the model can denote
JsonObjects ==
    { EmptyObj } \cup
    { Obj(df, raw, err) : df \in {None, "df_json", "na_df_json"},
                          raw \in {"{}", "parsed_data", "raw_data", "empty_raw_data"},
                          err \in {None, "scrape_error", "no_table", "hk_error"} }

\* json.loads: the object whose text this is, or JSONDecodeError
JSONDecodeError == [ keys |-> {"JSONDecodeError"}, dataframe |-> None, raw_data |-> None, error |-> None ]
LoadsText(text) ==
    IF \E obj \in JsonObjects : DumpsText(obj) = text
    THEN CHOOSE obj \in JsonObjects : DumpsText(obj) = text
    ELSE JSONDecodeError

\* bytes.decode('utf-8'), and on UnicodeDecodeError bytes.decode('gbk', errors='ignore'),
\* which drops what it cannot decode
Decode(bytes) ==
    IF \A n \in DOMAIN bytes : bytes[n] # "bad" THEN bytes
    ELSE SelectSeq(bytes, LAMBDA c : c # "bad")

\* lines 125-139: the first span that opens at brace level 0 and returns to it;
\* <<>> is json_str = None
RECURSIVE ScanBraces(_, _, _, _)
ScanBraces(stdout_str, n, brace_level, json_start) ==
    IF n > Len(stdout_str) THEN <<>>
    ELSE IF stdout_str[n] = "{"
         THEN ScanBraces(stdout_str, n + 1, brace_level + 1, IF brace_level = 0 THEN n ELSE json_start)
    ELSE IF stdout_str[n] = "}" /\ brace_level > 0
         THEN IF brace_level = 1 THEN SubSeq(stdout_str, json_start, n)
              ELSE ScanBraces(stdout_str, n + 1, brace_level - 1, json_start)
    ELSE ScanBraces(stdout_str, n + 1, brace_level, json_start)

ExtractJson(stdout_str) == ScanBraces(stdout_str, 1, 0, 0)

\* ---- the detail-fetch scripts
\* text the subprocess puts on its standard output around what the script prints
StrayTexts == { <<>>, << "x" >>, << "x", "bad" >>, << "{", "x" >>, << "x", "}" >>, << "{", "}" >> }

NoScript ==
    [ pc |-> "none", script_name |-> "", ret |-> Returned(None, None, None), written |-> <<>>,
      stdout |-> <<>>, stderr |-> "", returncode |-> 0 ]

\* stock_details_fetcher.py, lines 176-193: an uncaught exception ends the interpreter
\* with a traceback on standard error and exit status 1; an error goes to standard error
\* and the script exits with status 1; only a success is printed to standard output
RunAShareScript(ret) ==
    IF ret.raised THEN [written |-> <<>>, stderr |-> "traceback", returncode |-> 1]
    ELSE IF Truthy(ret.error) THEN [written |-> <<>>, stderr |-> "error_json", returncode |-> 1]
    ELSE [written |-> << Obj(ToJson(ret.df), ret.raw_data, ret.error) >>, stderr |-> "", returncode |-> 0]

\* fetchers/hk_details_fetcher.py, lines 120-135
RunHKScript(ret) ==
    IF ret.raised THEN [written |-> <<>>, stderr |-> "traceback", returncode |-> 1]
    ELSE [written |-> << Obj(IF ret.df # None THEN ToJson(ret.df) ELSE None,
                             IF Truthy(ret.raw_data) THEN ret.raw_data ELSE "{}",
                             ret.error) >>,
          stderr |-> "", returncode |-> 0]

RECURSIVE PrintedText(_)
PrintedText(written) ==
    IF written = <<>> THEN <<>> ELSE DumpsText(Head(written)) \o PrintedText(Tail(written))

\* ---- the bridge
NoResult ==
    [ financial_data |-> None, financial_raw_data |-> None, error_msg |-> None,
      news_data |-> <<>>, details_url |-> None ]

\* _get_fallback_financial_data
FallbackFinancialData == [df |-> "na_df", raw_data |-> "empty_raw_data"]

\* lines 30-59: the market type selects the script; an unknown market returns at once
Lookup ==
    /\ bpc = "idle"
    /\ \E stock_code \in LookupCodes, market_name \in LookupMarkets :
          LET market_type == MarketTypeOf(market_name)
          IN /\ lookup' = [stock_code |-> stock_code, market_name |-> market_name]
             /\ IF market_type = "A-Share"
                THEN /\ script' = [NoScript EXCEPT !.script_name = "stock_details_fetcher.py"]
                     /\ bpc' = "detail"
                     /\ UNCHANGED result
                ELSE IF market_type = "HK-Share"
                THEN /\ script' = [NoScript EXCEPT !.script_name = "hk_details_fetcher.py"]
                     /\ bpc' = "detail"
                     /\ UNCHANGED result
                ELSE /\ result' = [NoResult EXCEPT !.financial_data = FallbackFinancialData.df,
                                                   !.financial_raw_data = FallbackFinancialData.raw_data,
                                                   !.error_msg = "unknown_market"]
                     /\ bpc' = "returned"
                     /\ UNCHANGED script
    /\ UNCHANGED << elapsed, external_calls, pipelineVars >>

\* line 76: subprocess.run cannot start the child (OSError); no handler of the function
\* catches it
LaunchFails ==
    /\ bpc = "detail"
    /\ script.pc = "none"
    /\ bpc' = "raised"
    /\ external_calls' = Append(external_calls, "detail")
    /\ UNCHANGED << lookup, script, result, elapsed, pipelineVars >>

\* the child runs the DetailFetcher of its variant on the code it was given
ScriptFetch ==
    /\ bpc = "detail"
    /\ script.pc = "none"
    /\ \E page \in PageKinds :
          script' = [script EXCEPT
                        !.pc = "fetched",
                        !.ret = IF script.script_name = "stock_details_fetcher.py"
                                THEN get_a_share_details(lookup.stock_code, page)
                                ELSE get_hk_share_details(lookup.stock_code, page)]
    /\ external_calls' = Append(external_calls, "detail")
    /\ UNCHANGED << lookup, bpc, result, elapsed, pipelineVars >>

\* the child prints its result and exits
ScriptEmit ==
    /\ bpc = "detail"
    /\ script.pc = "fetched"
    /\ \E before \in StrayTexts, after \in StrayTexts :
          LET run == IF script.script_name = "stock_details_fetcher.py"
                     THEN RunAShareScript(script.ret) ELSE RunHKScript(script.ret)
          IN script' = [script EXCEPT !.pc = "exited", !.written = run.written,
                                      !.stdout = before \o PrintedText(run.written) \o after,
                                      !.stderr = run.stderr, !.returncode = run.returncode]
    /\ UNCHANGED << lookup, bpc, result, elapsed, external_calls, pipelineVars >>

\* lines 172-174: the child has not exited after DETAIL_TIMEOUT seconds; the handler sets
\* the fallback and the function goes on to line 181
DetailTimeout ==
    /\ bpc = "detail"
    /\ script.pc = "fetched"
    /\ script' = [script EXCEPT !.pc = "killed"]
    /\ result' = [result EXCEPT !.financial_data = FallbackFinancialData.df,
                                !.financial_raw_data = FallbackFinancialData.raw_data,
                                !.error_msg = "detail_timeout"]
    /\ elapsed' = elapsed + DETAIL_TIMEOUT
    /\ bpc' = "news"
    /\ UNCHANGED << lookup, external_calls, pipelineVars >>

\* lines 84-177 on the output of a child that exited: kind "return" is a return before
\* the news call, "continue" goes on to line 181, "raise" an exception no handler catches
ProcessOutput(returncode, stdout, stderr) ==
    LET stdout_str == Decode(stdout)
        json_str == ExtractJson(stdout_str)
        parsed == LoadsText(json_str)
        financial_df_json == IF "dataframe" \in parsed.keys THEN parsed.dataframe ELSE None
        financial_df == IF Truthy(financial_df_json) THEN ReadJson(financial_df_json) ELSE None
        financial_raw_data == IF "raw_data" \in parsed.keys THEN parsed.raw_data ELSE "{}"
        error == IF "error" \in parsed.keys THEN parsed.error ELSE None
        fallback(kind, msg) ==
            [ kind |-> kind, financial_data |-> FallbackFinancialData.df,
              financial_raw_data |-> FallbackFinancialData.raw_data, error_msg |-> msg ]
    IN IF returncode # 0 /\ stdout_str = <<>> THEN fallback("return", "subprocess_failed")
       ELSE IF json_str = <<>> THEN fallback("return", "no_json")
       ELSE IF parsed = JSONDecodeError THEN fallback("continue", "json_error")
       ELSE IF financial_df = "ValueError" THEN fallback("raise", None)
       ELSE IF financial_df = None
            THEN fallback("continue", IF Truthy(error) THEN error ELSE "no_valid_data")
       ELSE [ kind |-> "continue", financial_data |-> financial_df,
              financial_raw_data |-> financial_raw_data, error_msg |-> error ]

\* subprocess.run returns within the timeout
DetailCompleted ==
    /\ bpc = "detail"
    /\ script.pc = "exited"
    /\ LET out == ProcessOutput(script.returncode, script.stdout, script.stderr)
       IN /\ result' = [result EXCEPT !.financial_data = out.financial_data,
                                      !.financial_raw_data = out.financial_raw_data,
                                      !.error_msg = out.error_msg]
          /\ bpc' = IF out.kind = "return" THEN "returned"
                    ELSE IF out.kind = "raise" THEN "raised" ELSE "news"
    /\ elapsed' = elapsed + 1
    /\ UNCHANGED << lookup, script, external_calls, pipelineVars >>

\* what the call of subprocess.run for news_fetcher.py and json.loads of its output give:
\* a list, or an exception
NewsCallOutcomes ==
    { "items", "empty", "CalledProcessError", "JSONDecodeError", "FileNotFoundError",
      "TimeoutExpired", "UnicodeDecodeError" }

\* _get_news_via_subprocess: the exceptions it catches become (list, error); "raise"
\* stands for one it does not catch (the strict UTF-8 decoding of text=True)
get_news_via_subprocess(outcome) ==
    IF outcome = "items" THEN [news_data |-> << NewsItem("n1") >>, news_error |-> None, raised |-> FALSE]
    ELSE IF outcome = "empty" THEN [news_data |-> <<>>, news_error |-> None, raised |-> FALSE]
    ELSE IF outcome = "CalledProcessError" THEN [news_data |-> <<>>, news_error |-> "news_failed", raised |-> FALSE]
    ELSE IF outcome \in {"JSONDecodeError", "FileNotFoundError"}
         THEN [news_data |-> <<>>, news_error |-> "news_output_error", raised |-> FALSE]
    ELSE IF outcome = "TimeoutExpired" THEN [news_data |-> <<>>, news_error |-> "news_timeout", raised |-> FALSE]
    ELSE [news_data |-> <<>>, news_error |-> None, raised |-> TRUE]

\* lines 180-197: the news call, then the return
NewsCall ==
    /\ bpc = "news"
    /\ \E outcome \in NewsCallOutcomes :
          LET r == get_news_via_subprocess(outcome)
          IN /\ elapsed' = elapsed + (IF outcome = "TimeoutExpired" THEN NEWS_TIMEOUT ELSE 1)
             /\ IF r.raised
                THEN bpc' = "raised" /\ UNCHANGED result
                ELSE /\ bpc' = "returned"
                     /\ result' = [result EXCEPT
                                      !.news_data = r.news_data,
                                      !.error_msg = IF Truthy(r.news_error) /\ ~Truthy(result.error_msg)
                                                    THEN r.news_error ELSE result.error_msg]
    /\ external_calls' = Append(external_calls, "news")
    /\ UNCHANGED << lookup, script, pipelineVars >>

BridgeNext ==
    \/ Lookup
    \/ LaunchFails
    \/ ScriptFetch
    \/ ScriptEmit
    \/ DetailTimeout
    \/ DetailCompleted
    \/ NewsCall

\* ------------------------------------------------------------ the system
Init ==
    /\ stocks = <<>>
    /\ financial_data = {}
    /\ news = {}
    /\ lookup = [stock_code |-> <<>>, market_name |-> ""]
    /\ bpc = "idle"
    /\ script = NoScript
    /\ result = NoResult
    /\ elapsed = 0
    /\ external_calls = <<>>
    /\ now = 0
    /\ refreshLog = NoRefresh
    /\ mainPc = "idle"
    /\ runs = 0
    /\ max_workers \in 1..MAX_WORKERS
    /\ all_stocks = <<>>
    /\ i = 0
    /\ unit = <<>>
    /\ worker = <<>>
    /\ taskQueue = <<>>
    /\ excPending = FALSE
    /\ total_results = EmptyBag
    /\ completed = {}
    /\ issued = <<>>
    /\ pauses = 0
    /\ errored = {}

Next ==
    \/ UpdateStockList
    \/ SelectPending
    \/ ReturnNoStocks
    \/ OpenPool
    \/ \E w \in DOMAIN worker : TakeTask(w)
    \/ \E k \in DOMAIN unit : DetailFetch(k)
    \/ \E k \in DOMAIN unit : NewsFetch(k)
    \/ \E k \in DOMAIN unit : Persist(k)
    \/ Abort
    \/ ClosePool
    \/ Sleep

Spec == Init /\ [][Next]_vars

\* one lookup of the interactive path
BridgeSpec == Init /\ [][BridgeNext]_vars

\* ================================================================ claims
PendingCodes == { all_stocks[j][1] : j \in DOMAIN all_stocks }
Running == { k \in DOMAIN unit : unit[k].pc \in {"detail", "news", "persist"} }
Has688Prefix(c) == Len(c) >= 3 /\ c[1] = 6 /\ c[2] = 8 /\ c[3] = 8
DetailCallOf(u) == IF u.market_type = "A-Share" THEN "get_a_share_details" ELSE "get_hk_share_details"

RECURSIVE Flatten(_)
Flatten(seqs) == IF seqs = <<>> THEN <<>> ELSE Head(seqs) \o Flatten(Tail(seqs))

CeilDiv(n, w) == IF n % w = 0 THEN n \div w ELSE (n \div w) + 1

\* C1: right after the selection, the pending list holds exactly the instruments of the
\* stocks table that have no financial_data row, each once and with its market type,
\* and nothing that is not in the stocks table.
C1_PendingIsAntiJoin ==
    mainPc = "selected" =>
        /\ \A j \in DOMAIN stocks :
              (stocks[j].stock_code \in PendingCodes)
                  <=> ~(\E r \in financial_data : r.stock_code = stocks[j].stock_code)
        /\ \A j \in DOMAIN all_stocks :
              \E s \in DOMAIN stocks : all_stocks[j] = << stocks[s].stock_code, stocks[s].market_type >>
        /\ \A j, l \in DOMAIN all_stocks : all_stocks[j][1] = all_stocks[l][1] => j = l

C1_Witness ==
    /\ mainPc = "selected"
    /\ all_stocks # <<>>
    /\ \E j \in DOMAIN stocks : stocks[j].stock_code \in SnapshotCodes /\ stocks[j].stock_code \notin PendingCodes

\* C2 (as claimed): a unit in which the DetailFetcher raised ends with outcome 'failed'
\* and the run is not aborted.
C2_FaultIsContained ==
    \A k \in DOMAIN unit :
        unit[k].fault = "detail" => (unit[k].outcome = "failed" /\ mainPc # "aborted")

\* C3 (as claimed): a run over n >= 1 pending instruments ends having issued exactly
\* ceil(n/W) contiguous batches of size W (the last may be smaller) that cover the pending
\* list in order, and having paused exactly ceil(n/W) - 1 times.
C3_AllBatchesIssued ==
    (mainPc \in {"done", "aborted"} /\ all_stocks # <<>>) =>
        /\ Len(issued) = CeilDiv(Len(all_stocks), max_workers)
        /\ Flatten(issued) = all_stocks
        /\ \A b \in 1..(Len(issued) - 1) : Len(issued[b]) = max_workers
        /\ pauses = CeilDiv(Len(all_stocks), max_workers) - 1

\* C4: while a unit of the current batch has started, every instrument of every earlier
\* batch has completed its unit and one cool-down has been taken after each earlier batch.
C4_BatchesSequential ==
    \A k \in DOMAIN unit :
        (mainPc = "pool" /\ unit[k].pc \in {"detail", "news", "persist", "returned", "raised"}) =>
            /\ Len(issued) >= 1
            /\ \A b \in 1..(Len(issued) - 1) : \A j \in DOMAIN issued[b] : issued[b][j][1] \in completed
            /\ pauses = Len(issued) - 1

C4_Witness ==
    /\ mainPc = "pool"
    /\ Len(issued) >= 2
    /\ \E k \in DOMAIN unit : unit[k].pc = "detail"

\* C5: the number of units of work executing at the same time never exceeds the
\* configured limit.
C5_BoundedConcurrency ==
    /\ Cardinality(Running) <= max_workers
    /\ Cardinality({ w \in DOMAIN worker : worker[w].task # 0 }) <= max_workers

C5_Witness == max_workers = MAX_WORKERS /\ Cardinality(Running) = MAX_WORKERS

\* C6 (as claimed): no worker process of a pool executes more than one unit of work.
C6_OneUnitPerProcess == \A w \in DOMAIN worker : worker[w].ran <= 1

\* C7: a unit whose code starts with 688 calls no fetcher at all and its only outcome
\* is 'skipped'.
C7_ExcludedSkipped ==
    \A k \in DOMAIN unit :
        Has688Prefix(unit[k].stock_code) =>
            /\ unit[k].calls = <<>>
            /\ unit[k].pc \in {"queued", "returned", "killed"}
            /\ unit[k].pc = "returned" => unit[k].outcome = "skipped"

C7_Witness ==
    \E k \in DOMAIN unit :
        Has688Prefix(unit[k].stock_code) /\ unit[k].pc = "returned" /\ unit[k].outcome = "skipped"

\* C8: when a non-skipped unit returns, its outcome is 'success' or 'failed', and it is
\* 'success' exactly when its transaction added a snapshot row of its code or at least
\* one news row.
C8_OutcomeMatchesWrites ==
    [][ \A k \in DOMAIN unit :
          (k \in DOMAIN unit' /\ unit[k].pc = "persist" /\ unit'[k].pc = "returned") =>
              LET snapshot == \E r \in financial_data' \ financial_data : r.stock_code = unit[k].stock_code
                  newsRows == (news' \ news) # {}
              IN /\ unit'[k].outcome \in {"success", "failed"}
                 /\ (unit'[k].outcome = "success") <=> (snapshot \/ newsRows) ]_vars

C8_Witness ==
    \E k \in DOMAIN unit :
        /\ unit[k].pc = "returned" /\ unit[k].outcome = "failed"
        /\ \E l \in DOMAIN unit : unit[l].pc = "returned" /\ unit[l].outcome = "success"

\* C9: a unit whose DetailFetcher returned an error leaves financial_data unchanged, an
\* instrument whose last detail fetch returned an error has no snapshot row, and it is
\* in the pending list the next run selects.
C9_ErrorLeavesPending ==
    [][ /\ \A k \in DOMAIN unit :
              (k \in DOMAIN unit' /\ unit[k].pc = "persist" /\ Truthy(unit[k].details_error)
                  /\ unit'[k].pc # "persist") => financial_data' = financial_data
        /\ \A c \in errored' : ~(\E r \in financial_data' : r.stock_code = c)
        /\ mainPc' = "selected" => errored' \subseteq { all_stocks'[j][1] : j \in DOMAIN all_stocks' } ]_vars

C9_Witness ==
    /\ mainPc = "selected"
    /\ runs >= 2
    /\ \E c \in errored : c \in PendingCodes /\ Len(c) = 6

CatalogRefresh ==
    /\ runs < MaxRuns
    /\ \E dfA \in CatalogRankingOutputs("A"), dfH \in CatalogRankingOutputs("HK") :
          update_stock_list(<< dfA, dfH >>)
    /\ runs' = runs + 1
    /\ UNCHANGED << financial_data, news, mainPc, bridgeVars, max_workers, all_stocks, i, unit, worker,
                    taskQueue, excPending, total_results, completed, issued, pauses, errored >>

CatalogNext == CatalogRefresh

CatalogSpec == Init /\ [][CatalogNext]_vars

C12_InstrumentsImmutable ==
    [][ \A j \in DOMAIN stocks :
           /\ \E k \in DOMAIN stocks' : stocks'[k].stock_code = stocks[j].stock_code
           /\ \A k \in DOMAIN stocks' :
                 stocks'[k].stock_code = stocks[j].stock_code
                     => /\ stocks'[k].stock_name = stocks[j].stock_name
                        /\ stocks'[k].market_type = stocks[j].market_type ]_vars

\* the refresh of a second run has met a row that carries, under another name and from
\* another market, a code that the first run inserted
C12_Witness ==
    /\ mainPc = "refreshed"
    /\ runs = 2
    /\ \E m \in DOMAIN refreshLog.df :
          \E r \in DOMAIN refreshLog.df[m].rows, j \in DOMAIN stocks :
             LET row == refreshLog.df[m].rows[r]
             IN /\ row.code = stocks[j].stock_code
                /\ Truthy(row.name)
                /\ row.name # stocks[j].stock_name
                /\ Markets[m].type # stocks[j].market_type
                /\ stocks[j].last_updated = 0

\* C13: the news table holds at most one row per url, and no step changes or removes a
\* stored row: an item whose url is already stored is ignored
C13_NewsIdempotentOnUrl ==
    [][ /\ \A r \in news : r \in news'
        /\ \A r1, r2 \in news' : r1.url = r2.url => r1 = r2 ]_vars

\* a unit of a later run holds an item whose url is stored with the row an earlier run
\* crawled for the same instrument, while another unit of its batch has already returned
C13_Witness ==
    \E k \in DOMAIN unit, r \in news :
        /\ unit[k].pc = "persist"
        /\ \E j \in DOMAIN unit[k].news_result : unit[k].news_result[j].url = r.url
        /\ r.stock_code = unit[k].stock_code
        /\ r.crawled_time < now
        /\ \E k2 \in DOMAIN unit : k2 # k /\ unit[k2].pc = "returned" /\ unit[k2].outcome = "failed"

\* C14: no step removes or changes a row of financial_data, and a unit that returns with
\* its snapshot written (the row of its code at the current timestamp is stored) has
\* added exactly one row
C14_SnapshotsAppendOnly ==
    [][ /\ \A r \in financial_data : r \in financial_data'
        /\ \A k \in DOMAIN unit :
              ( /\ k \in DOMAIN unit'
                /\ unit[k].pc = "persist"
                /\ unit'[k].pc = "returned"
                /\ \E r \in financial_data' : r.stock_code = unit[k].stock_code /\ r.last_updated = now )
              => Cardinality(financial_data') = Cardinality(financial_data) + 1 ]_vars

\* a unit has written its snapshot into a table that holds a snapshot of an earlier run
\* and one of another unit of the same batch
C14_Witness ==
    \E k \in DOMAIN unit, r1, r2, r3 \in financial_data :
        /\ unit[k].pc = "returned"
        /\ unit[k].outcome = "success"
        /\ r1.stock_code = unit[k].stock_code /\ r1.last_updated = now
        /\ r2.last_updated < now
        /\ r3.stock_code # r1.stock_code /\ r3.last_updated = now

Skipped(df) == ~df.raised /\ (df.isNone \/ df.rows = <<>>)
ValidRow(row) == TruthyList(row.code) /\ Truthy(row.name)

DetailCallFailed ==
    \/ script.pc = "killed"
    \/ /\ script.pc = "exited"
       /\ \/ script.returncode # 0 /\ Decode(script.stdout) = <<>>
          \/ ExtractJson(Decode(script.stdout)) = <<>>
          \/ LoadsText(ExtractJson(Decode(script.stdout))) = JSONDecodeError

IsFallbackWithError ==
    /\ result.financial_data = FallbackFinancialData.df
    /\ Truthy(result.error_msg)

\* C15: the bridge never leaves by an exception, and when the detail call failed the
\* object it returns holds the N/A fallback record and a non-null error message
C15_BridgeNeverRaises ==
    /\ bpc # "raised"
    /\ (bpc = "returned" /\ DetailCallFailed) => IsFallbackWithError

\* C16: when the child printed one JSON object, with any stray text before and after it,
\* the span the bridge extracts from the decoded output is exactly that object's text
C16_ExtractsEmbeddedObject ==
    (bpc \in {"news", "returned"} /\ script.pc = "exited" /\ Len(script.written) = 1)
        => ExtractJson(Decode(script.stdout)) = DumpsText(script.written[1])

\* C17: a lookup whose detail subprocess was killed at the timeout returns the fallback
\* with an error after waiting DETAIL_TIMEOUT seconds at most, the detail call being the
\* only external call it made
C17_TimeoutReturnsWithinOneInterval ==
    (bpc = "returned" /\ script.pc = "killed")
        => /\ IsFallbackWithError
           /\ elapsed <= DETAIL_TIMEOUT
           /\ external_calls = << "detail" >>

\* C18: a detail-fetch script that has exited has written one JSON object with the keys
\* dataframe, raw_data and error to its standard output, error being a string when the
\* fetch failed and null when it succeeded
C18_ScriptWritesWireObject ==
    script.pc = "exited"
        => /\ Len(script.written) = 1
           /\ script.written[1].keys = {"dataframe", "raw_data", "error"}
           /\ Truthy(script.written[1].error) <=> (script.ret.raised \/ Truthy(script.ret.error))

\* C19: what a DetailFetcher gives is (table, payload, null) or (null, null, error)
C19_FetcherTupleShape ==
    script.pc # "none"
        => /\ ~script.ret.raised
           /\ \/ script.ret.df # None /\ script.ret.raw_data # None /\ script.ret.error = None
              \/ script.ret.df = None /\ script.ret.raw_data = None /\ script.ret.error # None

\* ------------------------------------------------------- claims C21 to C30
\* the rows of the stocks table after a step that were not in it before
NewStocks == { stocks'[k] : k \in { n \in DOMAIN stocks' : stocks'[n].stock_code \notin StockCodes } }

RECURSIVE SumSeq(_)
SumSeq(q) == IF q = <<>> THEN 0 ELSE Head(q) + SumSeq(Tail(q))

C22_FinalTallyReached ==
    /\ mainPc # "aborted"
    /\ (mainPc = "done" /\ all_stocks # <<>>)
          => /\ success_count + skipped_count + failed_count = Len(all_stocks)
             /\ Cardinality(completed) = Len(all_stocks)

\* C23: the progress counter equals the number of units that have completed, at every
\* point of the run, and the number of pending instruments once the run has ended
C23_ProgressPerUnit ==
    /\ mainPc \in {"pool", "sleep", "loop", "done", "aborted"} => pbar = Cardinality(completed)
    /\ (mainPc \in {"done", "aborted"} /\ all_stocks # <<>>) => pbar = Len(all_stocks)

\* C24: a unit that met a store error, on an insert or on the commit, does not leave by
\* an exception, and the run is not aborted
C24_StoreFailureContained ==
    /\ \A k \in DOMAIN unit :
          (unit[k].store_error \/ unit[k].fault = "commit") => unit[k].pc # "raised"
    /\ mainPc = "aborted" => \A k \in DOMAIN unit : unit[k].fault # "commit"

\* C25: every row of financial_data and every row of news carries the code of a row of
\* stocks
C25_ReferentialIntegrity ==
    /\ \A r \in financial_data : r.stock_code \in StockCodes
    /\ \A r \in news : r.stock_code \in StockCodes

\* the second run has stored rows of both tables, of different instruments
C25_Witness ==
    /\ runs = 2
    /\ \E r \in financial_data, n \in news :
          r.stock_code # n.stock_code /\ r.last_updated = now /\ n.crawled_time = now

\* C26: the set of codes with a snapshot only grows; a code whose snapshot was written by
\* an earlier run is not in the pending list and no unit exists for it; every code
\* has at most one snapshot row
C26_SnapshotStopsCrawling ==
    [][ /\ SnapshotCodes \subseteq SnapshotCodes'
        /\ \A r \in financial_data' :
              r.last_updated < now' =>
                 /\ r.stock_code \notin PendingCodes'
                 /\ \A k \in DOMAIN unit' : unit'[k].stock_code # r.stock_code
        /\ \A r1, r2 \in financial_data' : r1.stock_code = r2.stock_code => r1 = r2 ]_vars

\* the second run crawls an instrument while the snapshot of the first run is stored
C26_Witness ==
    /\ runs = 2
    /\ mainPc = "pool"
    /\ \E r \in financial_data : r.last_updated < now
    /\ \E k \in DOMAIN unit, r \in financial_data :
          /\ unit[k].pc = "returned" /\ unit[k].outcome = "success"
          /\ r.stock_code = unit[k].stock_code /\ r.last_updated = now

Excluded688 == { c \in StockCodes : Has688Prefix(c) }

\* C27: an excluded instrument never has a snapshot, is in the pending list of every
\* run, and has been counted as skipped when the run has ended
C27_SkippedEveryRun ==
    /\ \A r \in financial_data : ~Has688Prefix(r.stock_code)
    /\ mainPc \in {"selected", "pool", "sleep", "loop", "done", "aborted"}
          => Excluded688 \subseteq PendingCodes
    /\ mainPc \in {"done", "aborted"} => skipped_count = Cardinality(Excluded688)

\* C28: a step of the unit for code c leaves stocks unchanged, removes or changes no row
\* of financial_data of another code and no row of news, and adds rows of code c only
C28_UnitWritesOwnRows ==
    [][ \A k \in DOMAIN unit :
          (mainPc = "pool" /\ mainPc' = "pool" /\ unit'[k] # unit[k]) =>
             LET c == unit[k].stock_code
             IN /\ stocks' = stocks
                /\ \A r \in financial_data : r.stock_code # c => r \in financial_data'
                /\ \A r \in financial_data' \ financial_data : r.stock_code = c
                /\ news \subseteq news'
                /\ \A r \in news' \ news : r.stock_code = c ]_vars

\* a unit is about to write while the store holds a snapshot of another instrument and
\* the url of one of its items under another instrument's code
C28_Witness ==
    \E k \in DOMAIN unit, r \in news, f \in financial_data :
        /\ unit[k].pc = "persist"
        /\ Truthy(unit[k].raw_data)
        /\ \E j \in DOMAIN unit[k].news_result : unit[k].news_result[j].url = r.url
        /\ r.stock_code # unit[k].stock_code
        /\ f.stock_code # unit[k].stock_code /\ f.last_updated = now

KnownMarketNames == { Markets[m].name : m \in { n \in DOMAIN Markets : Markets[n].type \in {"A-Share", "HK-Share"} } }

\* C30: a lookup under a market name whose type is neither A-Share nor HK-Share has
\* returned the N/A fallback with an error message and an empty news list, and no
\* subprocess was launched
C30_UnknownMarketFallback ==
    (bpc # "idle" /\ lookup.market_name \notin KnownMarketNames) =>
        /\ bpc = "returned"
        /\ IsFallbackWithError
        /\ result.financial_raw_data = FallbackFinancialData.raw_data
        /\ result.news_data = <<>>
        /\ external_calls = <<>>
        /\ script = NoScript

C30_Witness ==
    /\ bpc = "returned"
    /\ lookup.market_name = "US"
    /\ result.error_msg = "unknown_market"
    /\ external_calls = <<>>

====
